---- MODULE Spec2Model ----
(***************************************************************************)
(* Model of the Venafi CertificateRequest signer                           *)
(* (pkg/controller/certificaterequests/venafi/venafi.go).                  *)
(*                                                                         *)
(* Each request r of Requests is a CertificateRequest for which the        *)
(* external controller invokes Venafi.Sign, at most one invocation in      *)
(* flight per request, invocations for different requests interleaving     *)
(* freely.  One invocation is split at its two blocking external calls     *)
(* (clientBuilder and client.Sign); the code between two calls is one      *)
(* atomic step.                                                            *)
(***************************************************************************)
EXTENDS Integers, Sequences, FiniteSets

\* ---- bounds ----
NumRequests == 2
MaxInvocations == 2

Requests == 1..NumRequests

\* ---- values ----
Nil == "nil"

\* errors the client builder can return
BuildErrors == {"k8s.NotFound", "k8s.Forbidden", "venafi.InitError"}
\* errors the CA client's Sign can return (dynamic Go types)
SignErrors == {"endpoint.ErrCertificatePending",
               "endpoint.ErrRetrieveCertificateTimeout",
               "errors.Generic"}
\* certificate bytes the CA may hand back
Certs == {"certA", "certB"}
\* what the CA client may hand back next to an error: nothing, or bytes
PartialCerts == {Nil, "certA"}

\* cr.Spec.Duration of the requests at hand: odd ones leave it unset (nil),
\* even ones set it
RequestedDuration(r) == IF r % 2 = 1 THEN "unset" ELSE "1h"

\* k8sErrors.IsNotFound
IsNotFound(e) == e = "k8s.NotFound"

\* apiutil.DefaultCertDuration: the requested duration, or the default
DefaultCertDuration(d) == IF d = "unset" THEN "default" ELSE d

\* crutil.NewReporter(cr, v.recorder): a reporter bound to one request
NewReporter(cr) == [cr |-> cr]

\* reporter.Pending / reporter.Failed: one event on the recorder, about the
\* reporter's request.  "by" is a history field: the invocation that made
\* the call.
Event(rep, kind, reason, message, by) ==
    [req |-> rep.cr, kind |-> kind, reason |-> reason, message |-> message, by |-> by]

ReporterPending(sink, rep, reason, message, by) ==
    Append(sink, Event(rep, "Pending", reason, message, by))

ReporterFailed(sink, rep, reason, message, by) ==
    Append(sink, Event(rep, "Failed", reason, message, by))

\* one reporter call, as data: which method, with which reason and message
Report(kind, reason, message) == [kind |-> kind, reason |-> reason, message |-> message]

RECURSIVE ApplyReports(_, _, _, _)
ApplyReports(sink, rep, reports, by) ==
    IF reports = << >> THEN sink
    ELSE LET h == Head(reports)
             s == IF h.kind = "Pending"
                  THEN ReporterPending(sink, rep, h.reason, h.message, by)
                  ELSE ReporterFailed(sink, rep, h.reason, h.message, by)
         IN ApplyReports(s, rep, Tail(reports), by)

\* *issuerpkg.IssueResponse: a response carrying the certificate, or nil
IssueResponse(certPem) == [isNil |-> FALSE, Certificate |-> certPem]
NilResponse == [isNil |-> TRUE, Certificate |-> Nil]

\* ---- the branches of Sign, as (reporter calls in order, returned pair) ----

\* if k8sErrors.IsNotFound(err): report Pending/MissingSecret, return nil, nil
MissingSecretBranch(e) ==
    [reports |-> << Report("Pending", "MissingSecret",
                           "Required secret resource not found") >>,
     result |-> NilResponse, err |-> Nil]

\* any other build error: report Pending/ErrorVenafiInit, return nil, err
VenafiInitBranch(e) ==
    [reports |-> << Report("Pending", "ErrorVenafiInit",
                           "Failed to initialise venafi client for signing") >>,
     result |-> NilResponse, err |-> e]

\* variant: the not-found case also hands the error to the caller
HandleBuildError_SurfaceNotFound(e) ==
    IF IsNotFound(e)
    THEN [MissingSecretBranch(e) EXCEPT !.err = e]
    ELSE VenafiInitBranch(e)

\* variant: every build error is swallowed like the not-found one
HandleBuildError_SwallowInit(e) ==
    IF IsNotFound(e)
    THEN MissingSecretBranch(e)
    ELSE [VenafiInitBranch(e) EXCEPT !.err = Nil]

\* if err != nil after clientBuilder
HandleBuildError(e) ==
    IF IsNotFound(e)
    THEN MissingSecretBranch(e)
    ELSE VenafiInitBranch(e)

\* case endpoint.ErrCertificatePending
PendingBranch(e) ==
    [reports |-> << Report("Pending", "IssuancePending",
        "venafi certificate still in a pending state, the request will be retried") >>,
     result |-> NilResponse, err |-> e]

\* case endpoint.ErrRetrieveCertificateTimeout
TimeoutBranch(e) ==
    [reports |-> << Report("Failed", "Timeout",
        "timed out waiting for venafi certificate, the request will be retried") >>,
     result |-> NilResponse, err |-> Nil]

\* default
RetrieveBranch(e) ==
    [reports |-> << Report("Pending", "Retrieve",
        "failed to obtain venafi certificate") >>,
     result |-> NilResponse, err |-> e]

\* variant: the timeout case returns without reporting
HandleSignError_SilentTimeout(e, certPem) ==
    CASE e = "endpoint.ErrCertificatePending" -> PendingBranch(e)
      [] e = "endpoint.ErrRetrieveCertificateTimeout" ->
            [TimeoutBranch(e) EXCEPT !.reports = << >>]
      [] OTHER -> RetrieveBranch(e)

\* variant: the default case also hands back whatever bytes the CA returned
HandleSignError_LeakCert(e, certPem) ==
    CASE e = "endpoint.ErrCertificatePending" -> PendingBranch(e)
      [] e = "endpoint.ErrRetrieveCertificateTimeout" -> TimeoutBranch(e)
      [] OTHER -> [RetrieveBranch(e) EXCEPT
                     !.result = IF certPem = Nil THEN NilResponse ELSE IssueResponse(certPem)]

\* variant: the timeout case returns the error, asking for a retry
HandleSignError_TimeoutRetry(e, certPem) ==
    CASE e = "endpoint.ErrCertificatePending" -> PendingBranch(e)
      [] e = "endpoint.ErrRetrieveCertificateTimeout" ->
            [TimeoutBranch(e) EXCEPT !.err = e]
      [] OTHER -> RetrieveBranch(e)

\* variant: the pending case is missing from the switch
HandleSignError_NoPendingCase(e, certPem) ==
    CASE e = "endpoint.ErrRetrieveCertificateTimeout" -> TimeoutBranch(e)
      [] OTHER -> RetrieveBranch(e)

\* variant: the default case swallows the error
HandleSignError_SwallowDefault(e, certPem) ==
    CASE e = "endpoint.ErrCertificatePending" -> PendingBranch(e)
      [] e = "endpoint.ErrRetrieveCertificateTimeout" -> TimeoutBranch(e)
      [] OTHER -> [RetrieveBranch(e) EXCEPT !.err = Nil]

\* switch err.(type) after client.Sign
HandleSignError(e, certPem) ==
    CASE e = "endpoint.ErrCertificatePending" -> PendingBranch(e)
      [] e = "endpoint.ErrRetrieveCertificateTimeout" -> TimeoutBranch(e)
      [] OTHER -> RetrieveBranch(e)

\* variant: the response is built without the certificate
HandleIssued_Empty(certPem) ==
    [reports |-> << >>, result |-> IssueResponse(Nil), err |-> Nil]

\* log.Info("certificate issued"); return &IssueResponse{Certificate: certPem}, nil
HandleIssued(certPem) ==
    [reports |-> << >>, result |-> IssueResponse(certPem), err |-> Nil]

\* history values: the external call has not been made in this invocation
NotBuilt == [called |-> FALSE, client |-> Nil, err |-> Nil]
NotSigned == [called |-> FALSE, certPem |-> Nil, err |-> Nil]

\* nothing returned yet; no reporter created yet
NoReturn == [result |-> NilResponse, err |-> Nil]
NoReporter == [cr |-> 0]

\* ---- state ----
VARIABLES
    pc,         \* per request: where its invocation of Sign stands
    inv,        \* per request: number of invocations started so far
    cr,         \* per request: the CertificateRequest (its Spec.Duration), immutable
    reporter,   \* per invocation: local variable reporter
    client,     \* per invocation: local variable client
    err,        \* per invocation: local variable err
    duration,   \* per invocation: local variable duration
    certPem,    \* per invocation: local variable certPem
    ret,        \* per request: the pair the last invocation returned
    events,     \* the recorder: the events recorded, in order
    trace,      \* history, per invocation: external interactions in order
    buildOut,   \* history, per invocation: what clientBuilder returned
    signOut,    \* history, per invocation: what client.Sign returned
    overlapped  \* history, per invocation: another invocation ran during it

vars == <<pc, inv, cr, reporter, client, err, duration, certPem, ret, events,
          trace, buildOut, signOut, overlapped>>

RECURSIVE SumInv(_, _)
SumInv(f, n) == IF n = 0 THEN 0 ELSE f[n] + SumInv(f, n - 1)

\* invocations started so far, over all requests
TotalInvocations == SumInv(inv, NumRequests)

Init ==
    /\ pc = [r \in Requests |-> "idle"]
    /\ inv = [r \in Requests |-> 0]
    /\ cr = [r \in Requests |-> [duration |-> RequestedDuration(r)]]
    /\ reporter = [r \in Requests |-> NoReporter]
    /\ client = [r \in Requests |-> Nil]
    /\ err = [r \in Requests |-> Nil]
    /\ duration = [r \in Requests |-> Nil]
    /\ certPem = [r \in Requests |-> Nil]
    /\ ret = [r \in Requests |-> NoReturn]
    /\ events = << >>
    /\ trace = [r \in Requests |-> << >>]
    /\ buildOut = [r \in Requests |-> NotBuilt]
    /\ signOut = [r \in Requests |-> NotSigned]
    /\ overlapped = [r \in Requests |-> FALSE]

\* an invocation of Sign for r has started and not yet returned
InFlight(r) == pc[r] \in {"build", "built", "signed"}

\* start of an invocation for r, with the reporters as given
InvokeWith(r, reporters) ==
    /\ pc[r] \in {"idle", "returned"}
    /\ TotalInvocations < MaxInvocations
    /\ inv' = [inv EXCEPT ![r] = @ + 1]
    /\ reporter' = reporters
    /\ client' = [client EXCEPT ![r] = Nil]
    /\ err' = [err EXCEPT ![r] = Nil]
    /\ duration' = [duration EXCEPT ![r] = Nil]
    /\ certPem' = [certPem EXCEPT ![r] = Nil]
    /\ ret' = [ret EXCEPT ![r] = NoReturn]
    /\ trace' = [trace EXCEPT ![r] = << >>]
    /\ buildOut' = [buildOut EXCEPT ![r] = NotBuilt]
    /\ signOut' = [signOut EXCEPT ![r] = NotSigned]
    /\ overlapped' = [q \in Requests |->
                        IF q = r THEN \E o \in Requests \ {r} : InFlight(o)
                        ELSE overlapped[q] \/ InFlight(q)]
    /\ pc' = [pc EXCEPT ![r] = "build"]
    /\ UNCHANGED <<cr, events>>

\* variant: the reporter is kept in a field of the shared Venafi value
Invoke_SharedReporter(r) ==
    InvokeWith(r, [q \in Requests |-> NewReporter(r)])

\* The controller calls Sign(ctx, cr, issuerObj) for request r; Sign creates
\* its own reporter.  All locals are fresh.
Invoke(r) ==
    InvokeWith(r, [reporter EXCEPT ![r] = NewReporter(r)])

\* client, err := v.clientBuilder(cr.Namespace, v.secretsLister, issuerObj)
ClientBuilder(r) ==
    /\ pc[r] = "build"
    /\ \E out \in {[called |-> TRUE, client |-> "client", err |-> Nil]}
                  \cup {[called |-> TRUE, client |-> Nil, err |-> e] : e \in BuildErrors} :
          /\ client' = [client EXCEPT ![r] = out.client]
          /\ err' = [err EXCEPT ![r] = out.err]
          /\ buildOut' = [buildOut EXCEPT ![r] = out]
    /\ trace' = [trace EXCEPT ![r] = Append(@, "build")]
    /\ pc' = [pc EXCEPT ![r] = "built"]
    /\ UNCHANGED <<inv, cr, reporter, duration, certPem, ret, events, signOut, overlapped>>

\* effect of one terminating branch: its reporter calls, then the return
Finish(r, h) ==
    /\ events' = ApplyReports(events, reporter[r], h.reports, <<r, inv[r]>>)
    /\ trace' = [trace EXCEPT ![r] =
                   @ \o [i \in 1..Len(h.reports) |-> "event"] \o <<"return">>]
    /\ ret' = [ret EXCEPT ![r] = [result |-> h.result, err |-> h.err]]
    /\ pc' = [pc EXCEPT ![r] = "returned"]

\* if err != nil { ... return } after the client build
BuildFailed(r) ==
    /\ pc[r] = "built"
    /\ err[r] # Nil
    /\ Finish(r, HandleBuildError(err[r]))
    /\ UNCHANGED <<inv, cr, reporter, client, err, duration, certPem, buildOut, signOut, overlapped>>

\* duration := DefaultCertDuration(cr.Spec.Duration)
\* certPem, err := client.Sign(cr.Spec.CSRPEM, duration)
ClientSignWhen(r, guard) ==
    /\ guard
    /\ duration' = [duration EXCEPT ![r] = DefaultCertDuration(cr[r].duration)]
    /\ \E out \in {[called |-> TRUE, certPem |-> c, err |-> Nil] : c \in Certs}
                  \cup {[called |-> TRUE, certPem |-> c, err |-> e] :
                           c \in PartialCerts, e \in SignErrors} :
          /\ certPem' = [certPem EXCEPT ![r] = out.certPem]
          /\ err' = [err EXCEPT ![r] = out.err]
          /\ signOut' = [signOut EXCEPT ![r] = out]
    /\ trace' = [trace EXCEPT ![r] = Append(@, "sign")]
    /\ pc' = [pc EXCEPT ![r] = "signed"]
    /\ UNCHANGED <<inv, cr, reporter, client, ret, events, buildOut, overlapped>>

\* variant: a pending answer makes Sign ask the CA again
ClientSign_Retry(r) ==
    ClientSignWhen(r, \/ pc[r] = "built" /\ err[r] = Nil
                      \/ pc[r] = "signed" /\ err[r] = "endpoint.ErrCertificatePending")

ClientSign(r) ==
    ClientSignWhen(r, pc[r] = "built" /\ err[r] = Nil)

\* if err != nil { switch err.(type) ... } after client.Sign
SignFailed(r) ==
    /\ pc[r] = "signed"
    /\ err[r] # Nil
    /\ Finish(r, HandleSignError(err[r], certPem[r]))
    /\ UNCHANGED <<inv, cr, reporter, client, err, duration, certPem, buildOut, signOut, overlapped>>

\* the success path
Issued(r) ==
    /\ pc[r] = "signed"
    /\ err[r] = Nil
    /\ Finish(r, HandleIssued(certPem[r]))
    /\ UNCHANGED <<inv, cr, reporter, client, err, duration, certPem, buildOut, signOut, overlapped>>

Next ==
    \/ \E r \in Requests : Invoke(r)
    \/ \E r \in Requests : ClientBuilder(r)
    \/ \E r \in Requests : BuildFailed(r)
    \/ \E r \in Requests : ClientSign(r)
    \/ \E r \in Requests : SignFailed(r)
    \/ \E r \in Requests : Issued(r)

Spec == Init /\ [][Next]_vars

\* ---- observations ----

\* the events on the recorder made by the current invocation for r
EventsBy(r) == SelectSeq(events, LAMBDA e : e.by = <<r, inv[r]>>)
\* the events on the recorder about request r
EventsAbout(r) == SelectSeq(events, LAMBDA e : e.req = r)
Returned(r) == pc[r] = "returned"
BuildOk(r) == buildOut[r].called /\ buildOut[r].err = Nil
BuildErr(r) == buildOut[r].err
SignErr(r) == signOut[r].err
Signed(r) == signOut[r].called
Succeeded(r) == Signed(r) /\ signOut[r].err = Nil
Called(r, what) == \E i \in 1..Len(trace[r]) : trace[r][i] = what
\* exactly one event, of this kind and reason
OnlyEvent(r, kind, reason) ==
    /\ Len(EventsBy(r)) = 1
    /\ EventsBy(r)[1].kind = kind
    /\ EventsBy(r)[1].reason = reason
IsPrefix(s, t) == Len(s) <= Len(t) /\ \A i \in 1..Len(s) : s[i] = t[i]

\* ---- claims ----

\* C1 (as stated): every invocation of Sign has recorded exactly one event
\* on the recorder when it returns, the success path included.
C1_OneEventAlways ==
    \A r \in Requests : Returned(r) => Len(EventsBy(r)) = 1

\* C1 (amended): an invocation that returns on a failure path (build error,
\* or CA Sign error) has recorded exactly one event; an invocation that
\* returns on the success path has recorded none (it only logs); an
\* invocation never records more than one event.
C1_OneEventOnFailure ==
    \A r \in Requests :
        /\ Len(EventsBy(r)) <= 1
        /\ Returned(r) => Len(EventsBy(r)) = IF Succeeded(r) THEN 0 ELSE 1

C1_Witness ==
    \E r, q \in Requests :
        /\ Returned(r) /\ SignErr(r) = "endpoint.ErrRetrieveCertificateTimeout"
        /\ Len(EventsBy(r)) = 1
        /\ Returned(q) /\ Succeeded(q) /\ Len(EventsBy(q)) = 0

\* C2: the returned pair is never (non-nil, non-nil); a result is returned
\* only when the CA Sign call succeeded; a returned error comes with a nil
\* result; and exactly one of issued / pending / failed is produced.
C2_NeverBoth ==
    \A r \in Requests : Returned(r) =>
        /\ ~(ret[r].result # NilResponse /\ ret[r].err # Nil)
        /\ ret[r].result # NilResponse => Succeeded(r)
        /\ ret[r].err # Nil => ret[r].result = NilResponse
        /\ \/ ret[r].result # NilResponse /\ EventsBy(r) = << >>
           \/ ret[r].result = NilResponse /\ Len(EventsBy(r)) = 1
                                  /\ EventsBy(r)[1].kind \in {"Pending", "Failed"}

C2_Witness ==
    \E r \in Requests :
        /\ Returned(r) /\ Signed(r)
        /\ signOut[r].err = "errors.Generic" /\ signOut[r].certPem # Nil
        /\ ret[r].err # Nil /\ ret[r].result = NilResponse

\* C3: build ok and CA Sign answers with the retrieval timeout error: Sign
\* returns (nil, nil) and the only event is Failed/Timeout.
C3_Timeout ==
    \A r \in Requests :
        (Returned(r) /\ BuildOk(r) /\ SignErr(r) = "endpoint.ErrRetrieveCertificateTimeout")
        => /\ ret[r] = [result |-> NilResponse, err |-> Nil]
           /\ OnlyEvent(r, "Failed", "Timeout")

C3_Witness ==
    \E r \in Requests :
        /\ Returned(r) /\ BuildOk(r)
        /\ SignErr(r) = "endpoint.ErrRetrieveCertificateTimeout"
        /\ cr[r].duration = "1h"
        /\ ret[r].err = Nil

\* C4: build ok and CA Sign answers without error: Sign returns
\* (result, nil) with result.Certificate the bytes the CA returned, and no
\* Pending or Failed event is recorded.
C4_Issued ==
    \A r \in Requests :
        (Returned(r) /\ BuildOk(r) /\ Succeeded(r))
        => /\ ret[r] = [result |-> IssueResponse(signOut[r].certPem), err |-> Nil]
           /\ ret[r].result.Certificate \in Certs
           /\ \A i \in 1..Len(EventsBy(r)) :
                 EventsBy(r)[i].kind \notin {"Pending", "Failed"}

C4_Witness ==
    \E r \in Requests :
        /\ Returned(r) /\ Succeeded(r)
        /\ signOut[r].certPem = "certB"
        /\ ret[r].result # NilResponse

\* C5: build ok and CA Sign answers with the certificate-pending error:
\* Sign returns (nil, that error) and the only event is
\* Pending/IssuancePending, whatever else could match.
C5_Pending ==
    \A r \in Requests :
        (Returned(r) /\ BuildOk(r) /\ SignErr(r) = "endpoint.ErrCertificatePending")
        => /\ ret[r] = [result |-> NilResponse, err |-> signOut[r].err]
           /\ ret[r].err # Nil
           /\ OnlyEvent(r, "Pending", "IssuancePending")

C5_Witness ==
    \E r \in Requests :
        /\ Returned(r) /\ SignErr(r) = "endpoint.ErrCertificatePending"
        /\ ret[r].err = "endpoint.ErrCertificatePending"

\* C6: build ok and CA Sign answers with an error that is neither pending
\* nor timeout: Sign returns (nil, that error) and the only event is
\* Pending/Retrieve.
C6_Retrieve ==
    \A r \in Requests :
        (Returned(r) /\ BuildOk(r) /\ SignErr(r) # Nil
            /\ SignErr(r) \notin {"endpoint.ErrCertificatePending",
                                  "endpoint.ErrRetrieveCertificateTimeout"})
        => /\ ret[r] = [result |-> NilResponse, err |-> signOut[r].err]
           /\ OnlyEvent(r, "Pending", "Retrieve")

C6_Witness ==
    \E r \in Requests :
        /\ Returned(r) /\ SignErr(r) = "errors.Generic"
        /\ cr[r].duration = "unset" /\ duration[r] = "default"
        /\ ret[r].err = "errors.Generic"

\* C7: the client builder fails with not-found: Sign returns (nil, nil),
\* the only event is Pending/MissingSecret, the CA Sign operation is not
\* called; and this holds of every invocation, whatever came before it.
C7_MissingSecret ==
    \A r \in Requests :
        (Returned(r) /\ BuildErr(r) = "k8s.NotFound")
        => /\ ret[r] = [result |-> NilResponse, err |-> Nil]
           /\ OnlyEvent(r, "Pending", "MissingSecret")
           /\ ~Called(r, "sign") /\ ~Signed(r)
           /\ \A i \in 1..Len(events) :
                 events[i].reason = "MissingSecret" =>
                    [events[i] EXCEPT !.by = 0, !.req = 0]
                      = [EventsBy(r)[1] EXCEPT !.by = 0, !.req = 0]

C7_Witness ==
    \E r \in Requests :
        /\ Returned(r) /\ BuildErr(r) = "k8s.NotFound" /\ inv[r] = 2
        /\ \E i \in 1..Len(events) :
              events[i].by = <<r, 1>> /\ events[i].reason = "MissingSecret"
        /\ ret[r] = [result |-> NilResponse, err |-> Nil]

\* C8: the client builder fails with an error other than not-found: Sign
\* returns (nil, that error), the only event is Pending/ErrorVenafiInit,
\* the CA Sign operation is not called.
C8_VenafiInit ==
    \A r \in Requests :
        (Returned(r) /\ BuildErr(r) \notin {Nil, "k8s.NotFound"})
        => /\ ret[r] = [result |-> NilResponse, err |-> buildOut[r].err]
           /\ OnlyEvent(r, "Pending", "ErrorVenafiInit")
           /\ ~Called(r, "sign") /\ ~Signed(r)

C8_Witness ==
    \E r, q \in Requests :
        /\ Returned(r) /\ BuildErr(r) = "k8s.Forbidden" /\ ret[r].err = "k8s.Forbidden"
        /\ Returned(q) /\ BuildErr(q) = "venafi.InitError" /\ ret[q].err = "venafi.InitError"

\* C9: within one invocation the client builder is called once and first,
\* the CA Sign operation at most once and only after a successful build,
\* and a failure's event is recorded after the failing call and before
\* the return.
AllowedTraces ==
    { <<"build", "event", "return">>,
      <<"build", "sign", "event", "return">>,
      <<"build", "sign", "return">> }

C9_CallOrder ==
    \A r \in Requests :
        /\ \E t \in AllowedTraces : IsPrefix(trace[r], t)
        /\ Called(r, "sign") => BuildOk(r)
        /\ Returned(r) =>
              /\ trace[r] \in AllowedTraces
              /\ BuildErr(r) # Nil => trace[r] = <<"build", "event", "return">>
              /\ SignErr(r) # Nil => trace[r] = <<"build", "sign", "event", "return">>

C9_Witness ==
    \E r \in Requests :
        /\ Returned(r) /\ SignErr(r) = "endpoint.ErrCertificatePending"
        /\ trace[r] = <<"build", "sign", "event", "return">>

\* C10: under any interleaving of invocations for different requests, an
\* event is about the request of the invocation that recorded it, two
\* invocations with the same build and sign answers have the same outcome,
\* and a step of one invocation changes neither the returned pair nor the
\* recorded events of another request.
SameOutcome(r, q) ==
    /\ ret[r] = ret[q]
    /\ Len(EventsBy(r)) = Len(EventsBy(q))
    /\ \A i \in 1..Len(EventsBy(r)) :
          [EventsBy(r)[i] EXCEPT !.by = 0, !.req = 0]
            = [EventsBy(q)[i] EXCEPT !.by = 0, !.req = 0]

C10_StateInv ==
    /\ \A i \in 1..Len(events) : events[i].req = events[i].by[1]
    /\ \A r, q \in Requests :
          (Returned(r) /\ Returned(q)
             /\ buildOut[r] = buildOut[q] /\ signOut[r] = signOut[q])
          => SameOutcome(r, q)

C10_StepInv ==
    \A r \in Requests :
        (pc'[r] = pc[r] /\ inv'[r] = inv[r])
        => /\ ret'[r] = ret[r]
           /\ EventsAbout(r)' = EventsAbout(r)
           /\ trace'[r] = trace[r]

C10_Isolation == [](C10_StateInv) /\ [][C10_StepInv]_vars

C10_Witness ==
    \E r, q \in Requests :
        /\ r # q
        /\ Returned(r) /\ Returned(q)
        /\ overlapped[r] /\ overlapped[q]
        /\ SignErr(r) = "errors.Generic" /\ SignErr(q) = "errors.Generic"
        /\ Len(EventsAbout(r)) = 1 /\ Len(EventsAbout(q)) = 1
====
